---- MODULE Spec2Model ----
(***************************************************************************)
(* Model of the conversation-orchestration client of the Discord bot:      *)
(* OpenAIThreadsCog (src/cogs/openai_threads.py).  One asyncio event loop   *)
(* runs every ask_question invocation; code between two awaits runs        *)
(* without interleaving, and the `requests` calls are synchronous, so they  *)
(* keep the event loop for the whole round trip.  Calls to Discord         *)
(* (fetch_message, reply, typing) are taken to succeed; every call to the  *)
(* remote assistant API may succeed, be answered by an error body, or      *)
(* raise.                                                                  *)
(***************************************************************************)
EXTENDS Integers, Sequences, FiniteSets, TLC

\* ---------------------------------------------------------------- bounds
MaxCalls == 2        \* ask_question invocations
MaxChannels == 2     \* distinct Discord channels
MaxPolls == 2        \* getRunStatus polls explored per invocation
MaxTextLen == 5      \* length of the texts given to split_message
MaxLimit == 3        \* max_length values given to split_message
MaxGateIds == 4      \* channel ids given to the allow-list test
MaxStarts == 2       \* on_ready events in the life of the bot
MaxAnswerLen == 4    \* length of the answers given to the cleaning

\* ------------------------------------------------------ program constants
MaxAttempts == 3     \* for _ in range(3)

Calls == 1..MaxCalls
Channels == 1..MaxChannels

\* result of dict lookup / json key that is absent
None == 0

\* the event loop is not running any ask_question task
Idle == 0

\* outcome of one HTTP round trip done with `requests`
\*   "ok"        2xx response with the documented JSON body
\*   "http"      non-2xx response with a JSON error body {"error": {...}}
\*   "transport" requests raised (connection error, timeout): no response
RemoteOutcomes == {"ok", "http", "transport"}

\* run statuses of the remote API; only the last two end the poll loop
RunStatuses == {"queued", "in_progress", "cancelled", "completed", "failed"}

\* outcome of one write of data/threads.json by save_threads
\*   "ok"          whole snapshot written
\*   "open_failed" open(...,'w') raised: file untouched
\*   "dump_failed" file truncated by open, json.dump raised: partial content
WriteOutcomes == {"ok", "open_failed", "dump_failed"}

\* A channel is named by one value that stands both for ctx.channel.id (an
\* int, tested against the allow-list) and for channel_id, its decimal text
\* (the key of the registry and of the JSON object in the file): str() is
\* one-to-one on ints, and json.load gives back the string keys and string
\* values that json.dump wrote.

\* content of data/threads.json: a whole JSON snapshot, unparsable text, or
\* no file at all
Snapshot(reg) == [exists |-> TRUE, valid |-> TRUE, map |-> reg]

VARIABLES
    threads,            \* self.threads: channel id -> thread id (None: absent)
    file,               \* content of data/threads.json
    allowed_channels,   \* self.allowed_channels: None or a list of channel ids
    created,            \* number of threads the remote service has created
    running,            \* the invocation holding the event loop, or Idle
    call,               \* per invocation: position and locals of ask_question,
                        \* the remote calls it has issued, the replies it sent
    proc,               \* the bot process: cog loaded or not, whether its
                        \* setup raised, number of on_ready events so far,
                        \* file content left behind by the previous process
    eval                \* one evaluation of a pure function: input and result

vars == <<threads, file, allowed_channels, created, running, call, proc, eval>>

\* JSON bodies, reduced to the keys ask_question reads
NoResponse == [kind |-> "none", id |-> None]
ThreadData(id) == [kind |-> "thread", id |-> id]      \* {"id": ..., ...}
ErrorBody == [kind |-> "error", id |-> None]          \* {"error": {"message": ...}}
NoRun == "none"                                       \* no run dict yet
Coroutine == "coroutine"                              \* a coroutine object
NoMessage == "None"                                   \* Python None as content

\* ALLOWED_CHANNELS unset or empty: self.allowed_channels is None
Unset == [set |-> FALSE, ids |-> {}]
AllowList(ids) == [set |-> TRUE, ids |-> ids]
AllowLists == {Unset, AllowList({1})}

EmptyRegistry == [ch \in Channels |-> None]

Corrupt == [exists |-> TRUE, valid |-> FALSE, map |-> EmptyRegistry]

Missing == [exists |-> FALSE, valid |-> FALSE, map |-> EmptyRegistry]

NewCall ==
    [pc |-> "idle", channel_id |-> None, in_registry |-> "unknown",
     thread_response |-> NoResponse, append_response |-> "none",
     attempt |-> 0, run |-> NoRun,
     nCreate |-> 0, nAppend |-> 0, nStartRun |-> 0, nPoll |-> 0,
     nGetLatest |-> 0,
     save_failed |-> FALSE, replies |-> <<>>]

\* the process that has run on_ready once, with nothing left by an earlier one
FirstProcess ==
    [cog_loaded |-> TRUE, setup_raised |-> FALSE, starts |-> 1,
     persisted |-> Missing]

\* no pure function is being evaluated
NoEval == [op |-> "none"]

\* OpenAIThreadsCog.__init__ after on_ready has reset data/threads.json
Init ==
    /\ threads = EmptyRegistry
    /\ file = Snapshot(EmptyRegistry)
    /\ allowed_channels \in AllowLists
    /\ created = 0
    /\ running = Idle
    /\ call = [c \in Calls |-> NewCall]
    /\ proc = FirstProcess
    /\ eval = NoEval

\* the task of invocation c may take a step: the loop is free or c holds it
Free(c) == running \in {Idle, c}

\* the except clause is missing
load_threads_NoExcept(f) ==
    IF f.exists /\ f.valid THEN [raised |-> FALSE, threads |-> f.map]
    ELSE IF f.exists THEN [raised |-> TRUE, threads |-> EmptyRegistry]
    ELSE [raised |-> FALSE, threads |-> EmptyRegistry]

\* load_threads: the dict read from the file, {} when there is no file or
\* json.load raised JSONDecodeError
load_threads(f) ==
    IF f.exists /\ f.valid THEN [raised |-> FALSE, threads |-> f.map]
    ELSE [raised |-> FALSE, threads |-> EmptyRegistry]

\* nothing is written
save_threads_Skipped(reg, old, w) == old

\* save_threads: one attempt to write the whole registry reg
save_threads(reg, old, w) ==
    CASE w = "ok" -> Snapshot(reg)
      [] w = "open_failed" -> old
      [] OTHER -> Corrupt

\* the command is dispatched; a replied-to message is fetched with an await
Invoke(c) ==
    /\ proc.cog_loaded
    /\ call[c].pc = "idle"
    /\ \A d \in Calls : d < c => call[d].pc # "idle"
    /\ Free(c)
    /\ \E ch \in Channels, reference \in BOOLEAN :
          /\ call' = [call EXCEPT ![c].pc = "gate", ![c].channel_id = ch]
          /\ running' = IF reference THEN Idle ELSE c
    /\ UNCHANGED <<threads, file, allowed_channels, created, proc, eval>>

\* an unset allow-list lets no channel in
isAllowed_NoneDenies(ch) == allowed_channels.set /\ ch \in allowed_channels.ids

\* the test is skipped
isAllowed_Always(ch) == TRUE

\* the access gate
isAllowed(ch) == ~allowed_channels.set \/ ch \in allowed_channels.ids

\* the lookup never finds the channel
InRegistry_Never(ch) == FALSE

\* channel_id in self.threads
InRegistry(ch) == threads[ch] # None

\* the task is suspended between the registry lookup and create_thread
Gate_Suspends(c) ==
    /\ call[c].pc = "gate"
    /\ Free(c)
    /\ LET ch == call[c].channel_id IN
         IF ~isAllowed(ch)
           THEN call' = [call EXCEPT ![c].pc = "ignored"]
           ELSE call' = [call EXCEPT
                           ![c].pc = IF InRegistry(ch) THEN "append"
                                                       ELSE "create",
                           ![c].in_registry = IF threads[ch] # None THEN "yes"
                                                                    ELSE "no"]
    /\ running' = Idle
    /\ UNCHANGED <<threads, file, allowed_channels, created, proc, eval>>

\* the allow-list test and the registry lookup
Gate(c) ==
    /\ call[c].pc = "gate"
    /\ Free(c)
    /\ LET ch == call[c].channel_id IN
         IF ~isAllowed(ch)
           THEN /\ call' = [call EXCEPT ![c].pc = "ignored"]
                /\ running' = Idle
           ELSE /\ call' = [call EXCEPT
                              ![c].pc = IF InRegistry(ch) THEN "append"
                                                          ELSE "create",
                              ![c].in_registry = IF threads[ch] # None THEN "yes"
                                                                       ELSE "no"]
                /\ running' = c
    /\ UNCHANGED <<threads, file, allowed_channels, created, proc, eval>>

\* ctx.reply / target_message.reply: one message sent to the channel
Reply(c, kind) == Append(call[c].replies, kind)

\* the assignment is lost
bind_Dropped(reg, ch, id) == reg

\* self.threads[channel_id] = id
bind(reg, ch, id) == [reg EXCEPT ![ch] = id]

\* 'id' in thread_response
HasId(resp) == resp.id # None

\* the error branch lacks its return
AfterCreate_NoReturn(resp) == "start_run"

\* where ask_question goes on after create_thread returned resp
AfterCreate(resp) == IF HasId(resp) THEN "start_run" ELSE "create_error"

\* save_threads raises instead of logging
AfterSave_Propagates(w, next) == IF w = "ok" THEN next ELSE "raised"

\* where the caller of save_threads goes on: the exception of a failed write
\* is logged and swallowed
AfterSave(w, next) == next

\* create_thread, then the bind in ask_question
PostThreads(c) ==
    /\ call[c].pc = "create"
    /\ Free(c)
    /\ LET ch == call[c].channel_id IN
       \E o \in RemoteOutcomes, w1 \in WriteOutcomes, w2 \in WriteOutcomes :
         CASE o = "ok" ->
                LET id == created + 1
                    reg == bind(bind(threads, ch, id), ch, id)
                IN /\ created' = id
                   /\ threads' = reg
                   /\ file' = save_threads(reg, save_threads(reg, file, w1), w2)
                   /\ call' = [call EXCEPT
                                 ![c].pc = AfterSave(w1, AfterSave(w2,
                                               AfterCreate(ThreadData(id)))),
                                 ![c].nCreate = @ + 1,
                                 ![c].save_failed = (w1 # "ok" \/ w2 # "ok"),
                                 ![c].thread_response = ThreadData(id)]
                   /\ running' = Idle
           [] o = "http" ->
                /\ call' = [call EXCEPT ![c].pc = AfterCreate(ErrorBody),
                                        ![c].nCreate = @ + 1,
                                        ![c].thread_response = ErrorBody]
                /\ running' = c
                /\ UNCHANGED <<threads, file, created>>
           [] OTHER ->
                /\ call' = [call EXCEPT ![c].pc = "raised",
                                        ![c].nCreate = @ + 1]
                /\ running' = Idle
                /\ UNCHANGED <<threads, file, created>>
    /\ UNCHANGED <<allowed_channels, proc>>

\* create_thread and the bind, as one step of the event loop
CreateThread(c) == PostThreads(c) /\ UNCHANGED eval

\* the failure reply after a create response without 'id'
ReplyCreateError(c) ==
    /\ call[c].pc = "create_error"
    /\ Free(c)
    /\ call' = [call EXCEPT ![c].pc = "done",
                            ![c].replies = Reply(c, "failure")]
    /\ running' = Idle
    /\ UNCHANGED <<threads, file, allowed_channels, created, proc, eval>>

\* the user message is posted to the existing thread; the response is dropped
PostMessages(c) ==
    /\ call[c].pc = "append"
    /\ Free(c)
    /\ \E o \in RemoteOutcomes :
         /\ call' = [call EXCEPT ![c].pc = IF o = "transport" THEN "raised"
                                                              ELSE "start_run",
                                 ![c].nAppend = @ + 1,
                                 ![c].append_response = o]
    /\ running' = Idle
    /\ UNCHANGED <<threads, file, allowed_channels, created, proc>>

\* the append, as one step of the event loop
AppendMessage(c) == PostMessages(c) /\ UNCHANGED eval

\* the loop runs one iteration too many
BudgetLeft_OffByOne(attempt) == attempt + 1 <= MaxAttempts

\* for _ in range(3): another iteration follows iteration number attempt
BudgetLeft(attempt) == attempt + 1 < MaxAttempts

\* the retry goes back to the append
AfterNoStatus_Reappend(attempt) ==
    IF BudgetLeft(attempt) THEN "append" ELSE "done"

\* where ask_question goes on after a run response without 'status': the
\* next iteration of the attempt loop, or the end of the function
AfterNoStatus(attempt) ==
    IF BudgetLeft(attempt) THEN "start_run" ELSE "done"

\* one iteration of the attempt loop up to the response of POST .../runs
PostRuns(c) ==
    /\ call[c].pc = "start_run"
    /\ Free(c)
    /\ \E o \in RemoteOutcomes :
         CASE o = "ok" ->
                \E s \in RunStatuses :
                  /\ call' = [call EXCEPT ![c].pc = "poll", ![c].run = s,
                                          ![c].nStartRun = @ + 1]
                  /\ running' = c
           [] o = "http" ->
                /\ call' = [call EXCEPT
                              ![c].pc = AfterNoStatus(call[c].attempt),
                              ![c].attempt = @ + 1,
                              ![c].nStartRun = @ + 1]
                /\ running' = Idle
           [] OTHER ->
                /\ call' = [call EXCEPT ![c].pc = "raised",
                                        ![c].nStartRun = @ + 1]
                /\ running' = Idle
    /\ UNCHANGED <<threads, file, allowed_channels, created, proc>>

\* the start of a run, as one step of the event loop
StartRun(c) == PostRuns(c) /\ UNCHANGED eval

\* the poll loop also ends on cancelled
Terminal_AlsoCancelled(status) == status \in {"completed", "failed", "cancelled"}

\* the poll loop ends on completed only
Terminal_OnlyCompleted(status) == status = "completed"

\* the poll loop never ends
Terminal_Never(status) == FALSE

\* run['status'] in ['completed', 'failed']: the poll loop is over
Terminal(status) == status \in {"completed", "failed"}

\* one iteration of the poll loop: GET the run, then sleep
GetRun(c) ==
    /\ call[c].pc = "poll"
    /\ ~Terminal(call[c].run)
    /\ call[c].nPoll < MaxPolls
    /\ Free(c)
    /\ \E o \in RemoteOutcomes :
         IF o = "ok"
           THEN \E s \in RunStatuses :
                  call' = [call EXCEPT ![c].run = s, ![c].nPoll = @ + 1]
           ELSE call' = [call EXCEPT ![c].pc = "raised", ![c].nPoll = @ + 1]
    /\ running' = Idle
    /\ UNCHANGED <<threads, file, allowed_channels, created, proc>>

\* one poll, as one step of the event loop
PollRun(c) == GetRun(c) /\ UNCHANGED eval

\* the failure is replied and the attempt loop goes on instead of returning
RunFailed_ReplyAndRetry(c) ==
    /\ call[c].pc = "poll"
    /\ Terminal(call[c].run)
    /\ call[c].run = "failed"
    /\ Free(c)
    /\ call' = [call EXCEPT ![c].pc = IF BudgetLeft(call[c].attempt)
                                       THEN "start_run" ELSE "done",
                            ![c].attempt = @ + 1,
                            ![c].replies = Reply(c, "failure")]
    /\ running' = Idle
    /\ UNCHANGED <<threads, file, allowed_channels, created, proc, eval>>

\* the poll loop ended on status failed
RunFailed(c) ==
    /\ call[c].pc = "poll"
    /\ Terminal(call[c].run)
    /\ call[c].run = "failed"
    /\ Free(c)
    /\ call' = [call EXCEPT ![c].pc = "done",
                            ![c].replies = Reply(c, "failure")]
    /\ running' = Idle
    /\ UNCHANGED <<threads, file, allowed_channels, created, proc, eval>>

\* calling the async method without await only builds a coroutine object
get_latest_assistant_message(thread_id, run_id) == Coroutine

\* Python truth value of what ask_question tests
Truthy(v) == v # NoMessage /\ v # ""

\* re.sub accepts only str
IsStr(v) == v # NoMessage /\ v # Coroutine

\* the poll loop ended on status completed
RunCompleted(c) ==
    /\ call[c].pc = "poll"
    /\ Terminal(call[c].run)
    /\ call[c].run # "failed"
    /\ Free(c)
    /\ LET assistant_message_content ==
             get_latest_assistant_message(threads[call[c].channel_id], c)
       IN /\ Truthy(assistant_message_content)
          /\ ~IsStr(assistant_message_content)
          /\ call' = [call EXCEPT ![c].pc = "raised",
                                  ![c].nGetLatest = @ + 1]
    /\ running' = Idle
    /\ UNCHANGED <<threads, file, allowed_channels, created, proc, eval>>

ask_question(c) ==
    \/ Invoke(c)
    \/ Gate(c)
    \/ CreateThread(c)
    \/ ReplyCreateError(c)
    \/ AppendMessage(c)
    \/ StartRun(c)
    \/ PollRun(c)
    \/ RunFailed(c)
    \/ RunCompleted(c)

Next == \E c \in Calls : ask_question(c)

Spec == Init /\ [][Next]_vars

\* ------------------------------------------- runs that end, tasks that run

\* the steps of ask_question after the command was dispatched
Resume(c) ==
    \/ Gate(c)
    \/ CreateThread(c)
    \/ ReplyCreateError(c)
    \/ AppendMessage(c)
    \/ StartRun(c)
    \/ PollRun(c)
    \/ RunFailed(c)
    \/ RunCompleted(c)

\* the run of invocation c has reported completed or failed by the last
\* poll explored
RunEnds(c) ==
    call'[c].pc = "poll" /\ call'[c].nPoll = MaxPolls
      => call'[c].run \in {"completed", "failed"}

NextFair == \E c \in Calls : (Invoke(c) \/ Resume(c)) /\ RunEnds(c)

\* the event loop resumes every task that is ready
SpecFair ==
    /\ Init
    /\ [][NextFair]_vars
    /\ \A c \in Calls : WF_vars(Resume(c) /\ RunEnds(c))

\* ------------------------------------------ the round trips of `requests`
\* requests.post and requests.get are blocking calls made from the
\* coroutine: the thread of the event loop sits in them from the moment the
\* request leaves until the response is there.

\* invocation c has sent a request and has no response yet
Waiting(c) == eval.op = "round_trip" /\ eval.call = c

\* the request of the next remote call of invocation c leaves
Request(c) ==
    /\ eval = NoEval
    /\ Free(c)
    /\ \/ call[c].pc \in {"create", "append", "start_run"}
       \/ /\ call[c].pc = "poll"
          /\ ~Terminal(call[c].run)
          /\ call[c].nPoll < MaxPolls
    /\ eval' = [op |-> "round_trip", call |-> c]
    /\ running' = c
    /\ UNCHANGED <<threads, file, allowed_channels, created, call, proc>>

\* the response, or the exception, is there and the coroutine goes on
Response(c) ==
    /\ Waiting(c)
    /\ PostThreads(c) \/ PostMessages(c) \/ PostRuns(c) \/ GetRun(c)
    /\ eval' = NoEval

\* the steps of ask_question that make no remote call
Local(c) ==
    \/ Invoke(c)
    \/ Gate(c)
    \/ ReplyCreateError(c)
    \/ RunFailed(c)
    \/ RunCompleted(c)

NextRoundTrip == \E c \in Calls : Request(c) \/ Response(c) \/ Local(c)

SpecRoundTrip == Init /\ [][NextRoundTrip]_vars

\* ------------------------------------------------------- split_message
\* A str is a sequence of one-character strings.

Alphabet == {"a", " ", "\n"}

\* str.strip() removes these from both ends
Whitespace == {" ", "\n", "\t", "\r"}

\* every str over Alphabet of length at most n
Texts(n) == UNION {[1..k -> Alphabet] : k \in 0..n}

\* the text of the documented example, cut with max_length 10
ExampleText == <<"a", "b", "c", "d", "e", "\n", "f", "g", "h", "i", "j", "k">>
ExampleLimit == 10

\* message[start:]
SliceFrom(message, start) == SubSeq(message, start + 1, Len(message))

\* message[:end]
SliceTo(message, end) == SubSeq(message, 1, end)

\* the first occurrence is taken instead of the last
rfind_First(message, ch, start, end) ==
    LET hits == {i \in start..(end - 1) : i < Len(message) /\ message[i + 1] = ch}
    IN IF hits = {} THEN -1 ELSE CHOOSE i \in hits : \A j \in hits : i <= j

\* message.rfind(ch, start, end): highest 0-based index in [start, end), or -1
rfind(message, ch, start, end) ==
    LET hits == {i \in start..(end - 1) : i < Len(message) /\ message[i + 1] = ch}
    IN IF hits = {} THEN -1 ELSE CHOOSE i \in hits : \A j \in hits : j <= i

\* nothing is stripped
strip_Nothing(message) == message

\* str.strip(): the text without its leading and trailing whitespace
strip(message) ==
    LET keep == {i \in 1..Len(message) : message[i] \notin Whitespace}
    IN IF keep = {} THEN <<>>
       ELSE SubSeq(message, CHOOSE i \in keep : \A j \in keep : i <= j,
                            CHOOSE i \in keep : \A j \in keep : j <= i)

\* without a newline the cut is one character too far
split_pos_OffByOne(message, max_length) ==
    IF rfind(message, "\n", 0, max_length) = -1
      THEN max_length + 1
      ELSE rfind(message, "\n", 0, max_length)

\* split_pos of one iteration of the loop of split_message
split_pos(message, max_length) ==
    IF rfind(message, "\n", 0, max_length) = -1
      THEN max_length
      ELSE rfind(message, "\n", 0, max_length)

\* the call split_message(text, max_length) about to enter its loop
SplitCall(text, max_length) ==
    [op |-> "split", text |-> text, max_length |-> max_length,
     message |-> text, parts |-> <<>>, at_newline |-> <<>>, pc |-> "loop"]

\* the state of the program when split_message is called on a drawn input
InitSplit ==
    /\ threads = EmptyRegistry
    /\ file = Snapshot(EmptyRegistry)
    /\ allowed_channels = Unset
    /\ created = 0
    /\ running = Idle
    /\ call = [c \in Calls |-> NewCall]
    /\ proc = FirstProcess
    /\ eval \in {SplitCall(t, l) : t \in Texts(MaxTextLen), l \in 1..MaxLimit}
                 \cup {SplitCall(ExampleText, ExampleLimit)}

\* one iteration of the while loop
SplitLoop ==
    /\ eval.op = "split"
    /\ eval.pc = "loop"
    /\ Len(eval.message) > eval.max_length
    /\ LET pos == split_pos(eval.message, eval.max_length) IN
         eval' = [eval EXCEPT
                    !.parts = Append(@, SliceTo(eval.message, pos)),
                    !.at_newline = Append(@,
                        rfind(eval.message, "\n", 0, eval.max_length) # -1),
                    !.message = strip(SliceFrom(eval.message, pos))]
    /\ UNCHANGED <<threads, file, allowed_channels, created, running, call, proc>>

\* the loop is left, the rest is appended and parts is returned
SplitReturn ==
    /\ eval.op = "split"
    /\ eval.pc = "loop"
    /\ Len(eval.message) <= eval.max_length
    /\ eval' = [eval EXCEPT !.parts = Append(@, eval.message),
                            !.pc = "returned"]
    /\ UNCHANGED <<threads, file, allowed_channels, created, running, call, proc>>

NextSplit == SplitLoop \/ SplitReturn

SpecSplit == InitSplit /\ [][NextSplit]_vars

\* the call, once made, runs on: nothing else can stop the synchronous loop
SpecSplitFair == SpecSplit /\ WF_vars(NextSplit)

\* ------------------------------------------- cleaning of citation markers
\* re.sub(r'【.*?】', '', assistant_message_content).  "[" stands for the
\* character 【 and "]" for 】.

Open == "["
Close == "]"

AnswerAlphabet == {"a", Open, Close, "\n"}

\* every answer over AnswerAlphabet of length at most n
Answers(n) == UNION {[1..k -> AnswerAlphabet] : k \in 0..n}

\* the answer of the documented example and its cleaned text
ExampleAnswer ==
    <<"A", "n", "s", "w", "e", "r", " ", Open, "r", "e", "f", ":", "1", Close,
      " ", "t", "e", "x", "t">>
ExampleCleaned ==
    <<"A", "n", "s", "w", "e", "r", " ", " ", "t", "e", "x", "t">>

\* what . matches: any character but a newline
Dot(ch) == ch # "\n"

\* the end (1-based position of the closing character) of the match of
\* 【.*?】 that starts at position i, 0 when there is none: the lazy .*? stops
\* at the first 】 that only characters matched by . separate from the 【
MatchEnd(text, i) ==
    LET ends == {j \in (i + 1)..Len(text) :
                   /\ text[j] = Close
                   /\ \A k \in (i + 1)..(j - 1) : Dot(text[k])}
    IN IF text[i] = Open /\ ends # {}
         THEN CHOOSE j \in ends : \A k \in ends : j <= k
         ELSE 0

\* re.sub from position i on: leftmost matches, not overlapping, replaced by
\* the empty string
RECURSIVE sub(_, _)
sub(text, i) ==
    IF i > Len(text) THEN <<>>
    ELSE IF MatchEnd(text, i) # 0 THEN sub(text, MatchEnd(text, i) + 1)
    ELSE <<text[i]>> \o sub(text, i + 1)

\* the answer about to be cleaned
CleanCall(text) ==
    [op |-> "clean", text |-> text, clean_content |-> <<>>, pc |-> "sub"]

InitClean ==
    /\ threads = EmptyRegistry
    /\ file = Snapshot(EmptyRegistry)
    /\ allowed_channels = Unset
    /\ created = 0
    /\ running = Idle
    /\ call = [c \in Calls |-> NewCall]
    /\ proc = FirstProcess
    /\ eval \in {CleanCall(t) : t \in Answers(MaxAnswerLen) \cup {ExampleAnswer}}

\* clean_content = re.sub(...)
Clean ==
    /\ eval.op = "clean"
    /\ eval.pc = "sub"
    /\ eval' = [eval EXCEPT !.clean_content = sub(eval.text, 1),
                            !.pc = "returned"]
    /\ UNCHANGED <<threads, file, allowed_channels, created, running, call, proc>>

NextClean == Clean

SpecClean == InitClean /\ [][NextClean]_vars

\* ------------------------------------------------------- the allow-list

GateIds == 1..MaxGateIds

\* os.getenv('ALLOWED_CHANNELS'): not defined, or a comma-separated list of
\* ids (the empty string when ids is empty)
Envs == {[defined |-> FALSE, ids |-> {}]}
          \cup {[defined |-> TRUE, ids |-> ids] : ids \in SUBSET GateIds}

\* self.allowed_channels as __init__ builds it from the environment
load_allowed_channels(env) ==
    IF env.defined /\ env.ids # {} THEN AllowList(env.ids) ELSE Unset

\* the cog configured from a drawn environment, asked about a drawn channel
InitGate ==
    /\ threads = EmptyRegistry
    /\ file = Snapshot(EmptyRegistry)
    /\ created = 0
    /\ running = Idle
    /\ call = [c \in Calls |-> NewCall]
    /\ proc = FirstProcess
    /\ \E env \in Envs, ch \in GateIds :
         /\ allowed_channels = load_allowed_channels(env)
         /\ eval = [op |-> "gate", env |-> env, channel_id |-> ch,
                    allowed |-> FALSE, pc |-> "test"]

\* the allow-list test of ask_question on eval.channel_id
GateTest ==
    /\ eval.op = "gate"
    /\ eval.pc = "test"
    /\ eval' = [eval EXCEPT !.allowed = isAllowed(eval.channel_id),
                            !.pc = "returned"]
    /\ UNCHANGED <<threads, file, allowed_channels, created, running, call, proc>>

NextGate == GateTest

SpecGate == InitGate /\ [][NextGate]_vars

\* ------------------------------------------- the cog over a file left behind

\* what an earlier process may have left in data/threads.json, with the
\* number of threads the remote service holds by then
PriorFiles ==
    {[file |-> Missing, created |-> 0],
     [file |-> Corrupt, created |-> 0],
     [file |-> Snapshot(EmptyRegistry), created |-> 0],
     [file |-> Snapshot(bind(EmptyRegistry, 1, 1)), created |-> 1]}

\* the extension is about to be loaded
InitCog ==
    /\ threads = EmptyRegistry
    /\ allowed_channels \in AllowLists
    /\ running = Idle
    /\ call = [c \in Calls |-> NewCall]
    /\ eval = NoEval
    /\ \E prior \in PriorFiles :
         /\ file = prior.file
         /\ created = prior.created
         /\ proc = [cog_loaded |-> FALSE, setup_raised |-> FALSE, starts |-> 1,
                    persisted |-> prior.file]

\* setup(bot): OpenAIThreads(bot) is constructed and added; an exception in
\* __init__ leaves the cog out (load_cogs logs it and goes on)
setup ==
    /\ ~proc.cog_loaded
    /\ ~proc.setup_raised
    /\ running = Idle
    /\ LET loaded == load_threads(file) IN
         /\ proc' = [proc EXCEPT !.cog_loaded = ~loaded.raised,
                                 !.setup_raised = loaded.raised]
         /\ threads' = loaded.threads
    /\ UNCHANGED <<file, allowed_channels, created, running, call, eval>>

NextCog == setup \/ (\E c \in Calls : ask_question(c))

SpecCog == InitCog /\ [][NextCog]_vars

\* --------------------------------------------------- the life of the process

\* reset_threads_file: one attempt to write {} to data/threads.json
reset_threads_file(old, w) ==
    CASE w = "ok" -> Snapshot(EmptyRegistry)
      [] w = "open_failed" -> old
      [] OTHER -> Corrupt

\* what is left of invocation c when the process ends: its task and its
\* locals are gone with the process
Abandon(c) ==
    IF call[c].pc = "idle" THEN call[c] ELSE [NewCall EXCEPT !.pc = "gone"]

\* the process ends (signal, crash, bot.close()): memory is lost, the file
\* stays
Stop ==
    /\ proc.cog_loaded
    /\ threads' = EmptyRegistry
    /\ call' = [c \in Calls |-> Abandon(c)]
    /\ running' = Idle
    /\ proc' = [proc EXCEPT !.cog_loaded = FALSE, !.setup_raised = FALSE,
                            !.persisted = file]
    /\ UNCHANGED <<file, allowed_channels, created, eval>>

\* a reconnect constructs the cog anew from the file just reset
on_ready_Reloads ==
    /\ proc.starts < MaxStarts
    /\ running = Idle
    /\ \E w \in WriteOutcomes :
         /\ file' = reset_threads_file(file, w)
         /\ IF w # "ok"
              THEN /\ threads' = EmptyRegistry
                   /\ call' = [c \in Calls |-> Abandon(c)]
                   /\ proc' = [proc EXCEPT !.cog_loaded = FALSE,
                                           !.setup_raised = FALSE,
                                           !.starts = @ + 1,
                                           !.persisted = file']
              ELSE /\ threads' = load_threads(file').threads
                   /\ call' = call
                   /\ proc' = [proc EXCEPT
                                 !.cog_loaded = ~load_threads(file').raised,
                                 !.setup_raised = load_threads(file').raised,
                                 !.starts = @ + 1]
    /\ UNCHANGED <<allowed_channels, created, running, eval>>

\* on_ready: reset_threads_file, then load_cogs.  It fires when a new
\* process has connected, and again when a running one has reconnected: then
\* load_extension finds the extension loaded and the cog keeps its registry.
\* When the reset raises, the bot closes.
on_ready ==
    /\ proc.starts < MaxStarts
    /\ running = Idle
    /\ \E w \in WriteOutcomes :
         /\ file' = reset_threads_file(file, w)
         /\ IF w # "ok"
              THEN /\ threads' = EmptyRegistry
                   /\ call' = [c \in Calls |-> Abandon(c)]
                   /\ proc' = [proc EXCEPT !.cog_loaded = FALSE,
                                           !.setup_raised = FALSE,
                                           !.starts = @ + 1,
                                           !.persisted = file']
              ELSE /\ threads' = IF proc.cog_loaded THEN threads
                                 ELSE load_threads(file').threads
                   /\ call' = call
                   /\ proc' = [proc EXCEPT
                                 !.cog_loaded = \/ proc.cog_loaded
                                                \/ ~load_threads(file').raised,
                                 !.setup_raised = /\ ~proc.cog_loaded
                                                  /\ load_threads(file').raised,
                                 !.starts = @ + 1]
    /\ UNCHANGED <<allowed_channels, created, running, eval>>

NextLifecycle == Stop \/ on_ready \/ (\E c \in Calls : ask_question(c))

SpecLifecycle == Init /\ [][NextLifecycle]_vars

\* ------------------------------------------ resets while the process runs

\* FaqUpdater.update_vector_store_and_assistant, step 6: the file is reset
\* once the vector store is replaced; an exception of the reset is logged
\* by the except clause of the method
update_vector_store_and_assistant ==
    /\ proc.cog_loaded
    /\ running = Idle
    /\ \E w \in WriteOutcomes : file' = reset_threads_file(file, w)
    /\ UNCHANGED <<threads, allowed_channels, created, running, call, proc, eval>>

NextReset ==
    \/ on_ready
    \/ update_vector_store_and_assistant
    \/ (\E c \in Calls : ask_question(c))

SpecReset == Init /\ [][NextReset]_vars

\* ------------------------------------------- a remote that answers as scripted

\* the statuses the remote reports for a run, in order
Script == <<"queued", "in_progress", "completed">>

\* a step of invocation c in which every remote call succeeds, POST .../runs
\* answers with the first status of Script and the n-th poll with the next one
ScriptedStep(c) ==
    /\ call'[c].thread_response # ErrorBody
    /\ call'[c].nCreate > call[c].nCreate => HasId(call'[c].thread_response)
    /\ call'[c].append_response \in {"none", "ok"}
    /\ call'[c].nStartRun > call[c].nStartRun
         => call'[c].pc = "poll" /\ call'[c].run = Script[1]
    /\ call'[c].nPoll > call[c].nPoll
         => call'[c].pc = "poll" /\ call'[c].run = Script[call'[c].nPoll + 1]

NextScripted ==
    \E c \in Calls :
      /\ \/ Invoke(c)
         \/ Gate(c)
         \/ CreateThread(c)
         \/ AppendMessage(c)
         \/ StartRun(c)
         \/ PollRun(c)
         \/ RunCompleted(c)
      /\ ScriptedStep(c)

SpecScripted == Init /\ [][NextScripted]_vars

\* ------------------------------------------------------------ properties

\* the invocation has left ask_question after passing the access gate
Returned(c) == call[c].pc = "done"
Raised(c) == call[c].pc = "raised"

\* C1: a call that finds its channel absent from the registry issues exactly
\* one createConversation and the registry then holds the id that call
\* returned; a call that finds the channel present issues none, and no
\* channel ever gets a second conversation created for it.
C1_FirstCallCreatesOnce ==
    /\ \A c \in Calls :
         /\ call[c].in_registry = "no" /\ call[c].pc # "create"
              => /\ call[c].nCreate = 1
                 /\ HasId(call[c].thread_response)
                      => threads[call[c].channel_id] = call[c].thread_response.id
         /\ call[c].in_registry = "no" /\ call[c].pc = "create"
              => call[c].nCreate = 0
         /\ call[c].in_registry = "yes" => call[c].nCreate = 0
    /\ \A c, d \in Calls :
         /\ c # d
         /\ call[c].channel_id = call[d].channel_id
         /\ HasId(call[c].thread_response)
         => ~HasId(call[d].thread_response)

\* a second call on a channel bound by an earlier call has gone through
C1_Witness ==
    \E c, d \in Calls :
      /\ c # d
      /\ call[c].channel_id = call[d].channel_id
      /\ HasId(call[c].thread_response)
      /\ call[d].in_registry = "yes"
      /\ call[d].nStartRun > 0
      /\ threads[call[c].channel_id] = call[c].thread_response.id

\* C2: an entry of the in-memory registry, once set, is never changed or
\* removed by any step of any ask_question call.
C2_EntriesOnlyAdded ==
    [][\A ch \in Channels : threads[ch] # None => threads'[ch] = threads[ch]]_vars

\* an entry that is still the one first bound after a later call bound
\* another channel
C2_Witness ==
    \E c, d \in Calls :
      /\ call[c].channel_id # call[d].channel_id
      /\ HasId(call[c].thread_response)
      /\ HasId(call[d].thread_response)
      /\ call[c].thread_response.id < call[d].thread_response.id
      /\ threads[call[c].channel_id] = call[c].thread_response.id
      /\ threads[call[d].channel_id] = call[d].thread_response.id

\* steps of the invocation whose createConversation got a non-success response
CreateFailedStep(c) ==
    /\ call'[c] # call[c]
    /\ call'[c].thread_response = ErrorBody

\* C3: after a non-success createConversation response the call has issued
\* that one create and nothing else, no step of it touches the registry in
\* memory or on disk, it ends with exactly one failure reply; and every id in
\* the registry was returned by a successful createConversation of a call on
\* that channel.
C3_CreateFailureAborts ==
    /\ [](\A c \in Calls :
            call[c].thread_response = ErrorBody
              => /\ call[c].nCreate = 1
                 /\ call[c].nAppend = 0
                 /\ call[c].nStartRun = 0
                 /\ call[c].nPoll = 0
                 /\ call[c].pc \in {"create_error", "done"}
                 /\ call[c].pc = "create_error" => call[c].replies = <<>>
                 /\ call[c].pc = "done" => call[c].replies = <<"failure">>)
    /\ [](\A ch \in Channels :
            threads[ch] # None
              => /\ threads[ch] \in 1..created
                 /\ \E c \in Calls : /\ call[c].channel_id = ch
                                     /\ call[c].thread_response = ThreadData(threads[ch]))
    /\ [][\A c \in Calls :
            CreateFailedStep(c) => threads' = threads /\ file' = file]_vars

\* a create failure answered by its failure reply, another channel being bound
C3_Witness ==
    \E c, d \in Calls :
      /\ call[c].thread_response = ErrorBody
      /\ Returned(c)
      /\ call[c].replies = <<"failure">>
      /\ HasId(call[d].thread_response)

\* C4: a non-success response to appendMessage aborts the call: no startRun.
C4_AppendFailureAborts ==
    \A c \in Calls : call[c].append_response = "http" => call[c].nStartRun = 0

\* C5: three startRun responses without a status end the call after exactly
\* 3 startRun calls with one failure reply and at most one appendMessage.
C5_ThreeStartFailuresSurface ==
    \A c \in Calls :
      call[c].attempt = 3
        => /\ call[c].nStartRun = 3
           /\ call[c].nAppend <= 1
           /\ Returned(c)
           /\ call[c].replies = <<"failure">>

\* C6: no call issues more than 3 startRun calls.
C6_AtMostThreeStartRuns ==
    \A c \in Calls : call[c].nStartRun <= 3

\* three startRun calls issued by one call
C6_Witness ==
    \E c \in Calls : call[c].nStartRun = 3 /\ Returned(c)

\* C7: a run reported failed is surfaced to the user only once the budget of
\* 3 attempts is used up.
C7_FailedRunRetried ==
    \A c \in Calls :
      call[c].run = "failed" /\ call[c].replies # <<>> => call[c].nStartRun = 3

\* C8: a completed run that yields no answer reply is retried while budget
\* remains, and the call ends with a failure message after 3 attempts.
C8_NoAnswerRetried ==
    \A c \in Calls :
      /\ call[c].run = "completed"
      /\ Returned(c) \/ Raised(c)
      /\ \A i \in 1..Len(call[c].replies) : call[c].replies[i] # "answer"
      => call[c].nStartRun = 3 /\ call[c].replies = <<"failure">>

\* C9: a call that passed the gate and returned has sent the answer or one
\* failure message, never nothing.
C9_OneTerminalOutcome ==
    \A c \in Calls : Returned(c) => call[c].replies # <<>>

\* C10: the replies of one call are only answer segments or one single
\* failure message.
C10_AnswerOrFailure ==
    \A c \in Calls :
      \/ \A i \in 1..Len(call[c].replies) : call[c].replies[i] = "answer"
      \/ call[c].replies = <<"failure">>

\* a failed run reported by its single failure reply
C10_Witness ==
    \E c \in Calls :
      /\ call[c].run = "failed"
      /\ Returned(c)
      /\ call[c].replies = <<"failure">>

\* C11: with run statuses queued, in_progress, completed the call delivers
\* the cleaned answer as its reply, after exactly one poll per transition.
C11_ScriptedRunAnswers ==
    \A c \in Calls :
      call[c].run = "completed" /\ (Returned(c) \/ Raised(c))
        => /\ call[c].nPoll = 2
           /\ call[c].replies # <<>>
           /\ \A i \in 1..Len(call[c].replies) : call[c].replies[i] = "answer"

\* split_message has returned
SplitReturned == eval.op = "split" /\ eval.pc = "returned"

\* C12: split_message returns at least one segment, exactly the empty one
\* for the empty text, and no segment is longer than max_length.
C12_SegmentsWithinLimit ==
    eval.op = "split"
      => /\ \A i \in 1..Len(eval.parts) : Len(eval.parts[i]) <= eval.max_length
         /\ SplitReturned
              => /\ Len(eval.parts) >= 1
                 /\ eval.text = <<>> => eval.parts = << <<>> >>

\* a text cut into three segments
C12_Witness ==
    /\ SplitReturned
    /\ Len(eval.parts) = 3
    /\ Len(eval.text) > eval.max_length

\* the segments put together again, with a newline where a cut took one
RECURSIVE Reassemble(_, _)
Reassemble(parts, at_newline) ==
    IF Len(parts) <= 1 THEN (IF parts = <<>> THEN <<>> ELSE parts[1])
    ELSE parts[1] \o (IF at_newline[1] THEN <<"\n">> ELSE <<>>)
                  \o Reassemble(Tail(parts), Tail(at_newline))

\* C13: the segments, with the separator consumed at each cut put back,
\* give the original text.
C13_RoundTrip ==
    SplitReturned => Reassemble(eval.parts, eval.at_newline) = eval.text

\* C14: a non-empty text gives only non-empty segments.
C14_NoEmptySegment ==
    SplitReturned /\ eval.text # <<>>
      => \A i \in 1..Len(eval.parts) : eval.parts[i] # <<>>

\* C15: the first segment of a text longer than max_length ends right before
\* the last newline among its first max_length characters, or has exactly
\* max_length characters when there is none; the documented example is cut
\* into "abcde" and "fghijk".
C15_CutAtLastNewline ==
    /\ eval.op = "split" /\ Len(eval.parts) >= 1 /\ Len(eval.text) > eval.max_length
         => LET first == eval.parts[1]
                n == Len(first)
            IN /\ first = SubSeq(eval.text, 1, n)
               /\ IF \E i \in 1..eval.max_length : eval.text[i] = "\n"
                    THEN /\ n < eval.max_length
                         /\ eval.text[n + 1] = "\n"
                         /\ \A j \in (n + 2)..eval.max_length : eval.text[j] # "\n"
                    ELSE n = eval.max_length
    /\ SplitReturned /\ eval.text = ExampleText /\ eval.max_length = ExampleLimit
         => eval.parts = << <<"a", "b", "c", "d", "e">>,
                            <<"f", "g", "h", "i", "j", "k">> >>

\* the documented example has been split
C15_Witness ==
    /\ SplitReturned
    /\ eval.text = ExampleText
    /\ eval.max_length = ExampleLimit
    /\ Len(eval.parts) = 2

\* C16: a channel is allowed iff the configured allow-list is unset or empty
\* or contains it; with the list {1, 2} channel 1 is allowed and 3 is not.
C16_AllowedIffListed ==
    eval.op = "gate" /\ eval.pc = "returned"
      => /\ eval.allowed <=> \/ ~eval.env.defined
                             \/ eval.env.ids = {}
                             \/ eval.channel_id \in eval.env.ids
         /\ eval.env.defined /\ eval.env.ids = {1, 2}
              => /\ eval.channel_id = 1 => eval.allowed
                 /\ eval.channel_id = 3 => ~eval.allowed

\* channel 3 refused by the list {1, 2}
C16_Witness ==
    /\ eval.op = "gate" /\ eval.pc = "returned"
    /\ eval.env.defined /\ eval.env.ids = {1, 2}
    /\ eval.channel_id = 3
    /\ ~eval.allowed

\* the channel of invocation c is not in the configured allow-list
Rejected(c) ==
    /\ call[c].pc \notin {"idle", "gate"}
    /\ allowed_channels.set
    /\ call[c].channel_id \notin allowed_channels.ids

\* C17: a call on a channel outside the allow-list ends at the gate: it has
\* issued no remote call and sent no reply, and its steps leave the registry,
\* the file and the remote service as they were.
C17_RejectedIsSilent ==
    /\ [](\A c \in Calls :
            Rejected(c)
              => /\ call[c].pc = "ignored"
                 /\ call[c].nCreate = 0 /\ call[c].nAppend = 0
                 /\ call[c].nStartRun = 0 /\ call[c].nPoll = 0
                 /\ call[c].thread_response = NoResponse
                 /\ call[c].append_response = "none"
                 /\ call[c].replies = <<>>)
    /\ [][\A c \in Calls :
            call'[c] # call[c] /\ call'[c].pc = "ignored"
              => threads' = threads /\ file' = file /\ created' = created]_vars

\* a rejected call next to a call that was let in and bound its channel
C17_Witness ==
    \E c, d \in Calls :
      /\ Rejected(c)
      /\ call[c].pc = "ignored"
      /\ HasId(call[d].thread_response)

\* C18: when a write of the registry file fails during a bind, the registry
\* in memory holds the new id all the same and the call is not aborted: it
\* goes on to startRun.
C18_WriteFailureKeepsGoing ==
    /\ [](\A c \in Calls :
            call[c].save_failed
              => /\ HasId(call[c].thread_response)
                 /\ threads[call[c].channel_id] = call[c].thread_response.id
                 /\ call[c].pc \in {"start_run", "poll", "done", "raised"}
                 /\ call[c].pc \in {"done", "raised"} => call[c].nStartRun >= 1)
    /\ [][\A c \in Calls :
            call'[c].save_failed /\ ~call[c].save_failed
              => call'[c].pc = "start_run"]_vars

\* a call whose bind left no valid snapshot on disk and that started a run
C18_Witness ==
    \E c \in Calls :
      /\ call[c].save_failed
      /\ file # Snapshot(threads)
      /\ call[c].nStartRun >= 1

\* the file the cog is constructed over cannot be read as a registry
Unreadable(f) == ~f.exists \/ ~f.valid

Persisted(ch) ==
    /\ proc.persisted.exists
    /\ proc.persisted.valid
    /\ proc.persisted.map[ch] # None

\* C20: after a restart, the first request on a channel whose binding the
\* previous process had persisted finds it in the registry, uses the same
\* conversation id and creates no thread.
C20_PersistedBindingReused ==
    [][\A c \in Calls :
         /\ call[c].pc = "gate"
         /\ call'[c].pc \in {"create", "append"}
         /\ Persisted(call[c].channel_id)
         => /\ call'[c].pc = "append"
            /\ threads[call[c].channel_id]
                 = proc.persisted.map[call[c].channel_id]]_vars

\* every write of the registry file made so far by the calls succeeded
AllWritesSucceeded == \A c \in Calls : ~call[c].save_failed

\* C21: however concurrent calls interleave, when every write succeeded the
\* file is a valid snapshot equal to the whole registry in memory and holds
\* the binding of every call that bound its channel.
C21_NoLostSnapshotUpdate ==
    AllWritesSucceeded
      => /\ file = Snapshot(threads)
         /\ \A c \in Calls :
              HasId(call[c].thread_response)
                => file.map[call[c].channel_id] # None

\* two calls on different channels bound them while both were under way
C21_Witness ==
    \E c, d \in Calls :
      /\ call[c].channel_id # call[d].channel_id
      /\ HasId(call[c].thread_response) /\ HasId(call[d].thread_response)
      /\ call[c].pc \in {"start_run", "poll"}
      /\ call[d].pc \in {"start_run", "poll"}
      /\ AllWritesSucceeded
      /\ file.map[call[c].channel_id] = call[c].thread_response.id
      /\ file.map[call[d].channel_id] = call[d].thread_response.id

\* C22: while a call waits for the response of a remote call, the event
\* loop is free for every other call to take steps.
C22_RoundTripDoesNotBlock ==
    \A c, d \in Calls : Waiting(c) /\ d # c => Free(d)

\* invocation c is in the poll loop and the last status it read of its run
\* is neither completed nor failed
Polling(c) ==
    /\ call[c].pc = "poll"
    /\ call[c].run \notin {"completed", "failed"}

\* C23: as long as the run reports neither completed nor failed, every step
\* of the call is one more getRunStatus poll: no other attempt is started,
\* no reply is sent and the call does not return; it leaves the loop only
\* when the poll request itself raises.
C23_PollsWhileNotTerminal ==
    /\ [](\A c \in Calls : Polling(c) => call[c].replies = <<>>)
    /\ [][\A c \in Calls :
            Polling(c) /\ call'[c] # call[c]
              => /\ call'[c].nPoll = call[c].nPoll + 1
                 /\ call'[c].pc \in {"poll", "raised"}
                 /\ call'[c].pc = "poll" => call'[c].run \in RunStatuses
                 /\ call'[c].nStartRun = call[c].nStartRun
                 /\ call'[c].attempt = call[c].attempt
                 /\ call'[c].nGetLatest = call[c].nGetLatest
                 /\ call'[c].replies = call[c].replies]_vars

\* a run whose last poll reported cancelled is still in the poll loop
C23_Witness ==
    \E c \in Calls :
      /\ Polling(c)
      /\ call[c].nPoll = MaxPolls
      /\ call[c].run = "cancelled"
      /\ call[c].nStartRun = 1
      /\ call[c].replies = <<>>

\* C25: a call submits the user message exactly once and before its first
\* startRun: in the create call when the channel was unbound, in one append
\* when it was bound; a retry of startRun does not submit it again.
C25_MessageSubmittedOnce ==
    /\ [](\A c \in Calls :
            /\ call[c].nCreate + call[c].nAppend <= 1
            /\ call[c].in_registry = "no" => call[c].nAppend = 0
            /\ call[c].in_registry = "yes" => call[c].nCreate = 0
            /\ call[c].nStartRun >= 1 => call[c].nCreate + call[c].nAppend = 1)
    /\ [][\A c \in Calls :
            call[c].nStartRun >= 1
              => /\ call'[c].nCreate = call[c].nCreate
                 /\ call'[c].nAppend = call[c].nAppend]_vars

\* a call on a bound channel started a run three times after its one append
C25_Witness ==
    \E c \in Calls :
      /\ call[c].in_registry = "yes"
      /\ call[c].nAppend = 1
      /\ call[c].nStartRun = MaxAttempts
      /\ call[c].attempt = MaxAttempts

\* C26: after a run has reported completed or failed it is not polled again;
\* get_latest_assistant_message is called only after completed, never after
\* failed.
C26_NoPollAfterTerminal ==
    /\ [](\A c \in Calls :
            /\ call[c].nGetLatest >= 1 => call[c].run = "completed"
            /\ call[c].run = "failed" => call[c].nGetLatest = 0)
    /\ [][\A c \in Calls :
            call[c].run \in {"completed", "failed"}
              => /\ call'[c].nPoll = call[c].nPoll
                 /\ call'[c].run = call[c].run]_vars

\* a polled run reported completed and the messages were asked for, next to
\* a run that reported failed
C26_Witness ==
    \E c, d \in Calls :
      /\ call[c].run = "completed"
      /\ call[c].nPoll >= 1
      /\ call[c].nGetLatest = 1
      /\ call[d].run = "failed"
      /\ Returned(d)

\* C29: a call polls at most one run: startRun is called again only while
\* no earlier response of the call carried a status, and once a response
\* carries one the call ends with that run.
C29_AtMostOneRunPolled ==
    /\ [](\A c \in Calls :
            call[c].run # NoRun
              => /\ call[c].nStartRun = call[c].attempt + 1
                 /\ call[c].pc \in {"poll", "done", "raised"})
    /\ [][\A c \in Calls :
            call'[c].nStartRun # call[c].nStartRun => call[c].run = NoRun]_vars

\* the third startRun of a call was the first to carry a status, and the
\* call ended on that run
C29_Witness ==
    \E c \in Calls :
      /\ call[c].nStartRun = MaxAttempts
      /\ call[c].run = "failed"
      /\ Returned(c)

\* C28: every iteration of the loop of split_message leaves a strictly
\* shorter text, also when the cut is at position 0, and the call returns.
C28_SplitTerminates ==
    /\ [][eval.op = "split" /\ eval'.pc = "loop" /\ eval' # eval
            => Len(eval'.message) < Len(eval.message)]_vars
    /\ (eval.op = "split" => <>SplitReturned)

\* a call whose first cut was at position 0, at a leading newline
C28_Witness ==
    /\ SplitReturned
    /\ Len(eval.text) > eval.max_length
    /\ eval.text[1] = "\n"
    /\ eval.parts[1] = <<>>
    /\ eval.at_newline[1]

\* the text holds a complete marker: a 【 with a 】 somewhere after it
HasMarker(text) ==
    \E i, j \in 1..Len(text) : i < j /\ text[i] = Open /\ text[j] = Close

\* C24: the cleaned text of any answer holds no complete marker 【...】, and
\* the documented example cleans to its text without the marker.
C24_NoMarkerLeft ==
    eval.op = "clean" /\ eval.pc = "returned"
      => /\ ~HasMarker(eval.clean_content)
         /\ eval.text = ExampleAnswer => eval.clean_content = ExampleCleaned

\* invocation c has left ask_question: by return or by an exception
Terminated(c) == call[c].pc \in {"ignored", "done", "raised"}

\* C27: when every run ends, every dispatched call leaves ask_question, and
\* it has called startRun at most three times.
C27_EveryCallTerminates ==
    /\ \A c \in Calls : call[c].pc # "idle" ~> Terminated(c)
    /\ [](\A c \in Calls : call[c].nStartRun <= MaxAttempts)

\* a call that polled its run to the end and returned, next to one that used
\* its three attempts
C27_Witness ==
    \E c, d \in Calls :
      /\ Terminated(c)
      /\ call[c].nPoll = MaxPolls
      /\ call[c].run = "failed"
      /\ Terminated(d)
      /\ call[d].nStartRun = MaxAttempts

\* invocations c and d are two calls on one channel
SameChannel(c, d) ==
    /\ c # d
    /\ call[c].channel_id # None
    /\ call[c].channel_id = call[d].channel_id

\* C30 as stated: of two calls on one channel only one ever calls
\* createConversation.
C30_ExactlyOneCreate ==
    \A c, d \in Calls :
      SameChannel(c, d) => ~(call[c].nCreate >= 1 /\ call[d].nCreate >= 1)

\* C30: the registry lookup, create_thread and the bind run without a
\* suspension between them, so of two calls on one channel at most one
\* creates a conversation with success and binds it; the other one calls
\* createConversation too only when the first create failed, and takes the
\* append path when it succeeded.
C30_OneCreateSucceeds ==
    /\ \A c \in Calls : call[c].pc = "create" => running = c
    /\ \A c, d \in Calls :
         SameChannel(c, d)
           => /\ ~(HasId(call[c].thread_response) /\ HasId(call[d].thread_response))
              /\ call[c].nCreate >= 1 /\ call[d].nCreate >= 1
                   => ~HasId(call[c].thread_response)
                        \/ ~HasId(call[d].thread_response)
              /\ HasId(call[c].thread_response) /\ call[d].in_registry # "unknown"
                   /\ call[d].nCreate = 0 => call[d].in_registry = "yes"

\* while the call that bound the channel is still under way, the other call
\* on the channel found the binding and appended
C30_Witness ==
    \E c, d \in Calls :
      /\ SameChannel(c, d)
      /\ HasId(call[c].thread_response)
      /\ call[c].pc \in {"start_run", "poll"}
      /\ call[d].in_registry = "yes"
      /\ call[d].nAppend = 1
      /\ call[d].nCreate = 0

\* the step is no step of a call and leaves the file reset and the bot
\* running (a reset that raises inside on_ready closes the bot)
ResetStep ==
    /\ call' = call
    /\ file' = Snapshot(EmptyRegistry)
    /\ proc.cog_loaded /\ proc'.cog_loaded

====
